---- MODULE Spec2Model ----
(***************************************************************************)
(* Streaming worker of p0-myadmin: the change processor                    *)
(* (worker/src/processor.ts), its Store (worker/src/db.ts), the gRPC       *)
(* client (worker/src/grpc.ts) and the worker's shutdown                   *)
(* (worker/src/index.ts), as one state machine.                            *)
(*                                                                         *)
(* JavaScript runs one callback at a time: an action is the code between   *)
(* two suspension points (an await on Store or network I/O, a timer, an    *)
(* event).  Awaits that only yield to the microtask queue are not          *)
(* suspension points: no event can be delivered there.                     *)
(***************************************************************************)
EXTENDS Integers, Sequences, FiniteSets, TLC

(***************************************************************************)
(* Bounds of the model.                                                    *)
(***************************************************************************)
\* addUpdate calls in one run of the worker
MaxUpdates == 2
\* Store calls of the worker's flushes that fail in one run
MaxFailures == 1
\* feed sessions client.subscribe() opens in one run
MaxSessions == 3
\* rows a page of cleanupProgram holds (1000 in cleanup.ts, line 20)
BATCH_SIZE == 3
\* newest timestamp of the history of the record that is pruned alone
MaxRows == 15
\* rows of a record, and retention, where several records are cleaned
MaxHistory == 3
MaxRetention == 2

(***************************************************************************)
(* Program constants.                                                      *)
(***************************************************************************)
maxReconnectAttempts == 20
baseReconnectDelay == 1000
maxReconnectDelay == 60000
\* Buffer.subarray(0, 8): the discriminator's length in bytes
DiscriminatorLen == 8

(***************************************************************************)
(* Input domains.                                                          *)
(***************************************************************************)
\* PROGRAMS of worker/src/config: the two program ids
Programs == {"MFv2", "stag"}
Pubkeys == {"P1", "P2", "P3"}
\* the program that owns an account on chain
OwnerOf(pk) == IF pk = "P3" THEN "stag" ELSE "MFv2"
\* account data: empty, shorter than a discriminator, a discriminator long
Datas == {<< >>, <<7>>, <<2, 0, 0, 0, 0, 0, 0, 1>>}
Lamports == {0, 1}

\* the decoded updates the feed can deliver at a slot (AccountUpdate;
\* executable and rentEpoch are never read)
AccountUpdates(slot) ==
    { [pubkey |-> pk, owner |-> OwnerOf(pk), lamports |-> l, slot |-> slot,
       data |-> d] : pk \in Pubkeys, l \in Lamports, d \in Datas }

\* values of their own, comparable with every hash and discriminator
NoHash == <<"undefined">>
Null == <<"null">>
EmptyMap == [k \in {} |-> k]

(***************************************************************************)
(* Conversions.  A digest and an encoding are modelled as injective        *)
(* constructors: equal outputs exactly for equal inputs, and an output is  *)
(* never the input itself.                                                 *)
(***************************************************************************)
Sha256Hex(data) == <<"sha256", data>>
Base64(data) == <<"base64", data>>
HexOfPrefix(data) ==
    IF Len(data) >= DiscriminatorLen
    THEN <<"hex", SubSeq(data, 1, DiscriminatorLen)>>
    ELSE Null
\* Number(bigint): exact for every slot below 2^53
NumberOf(slot) == slot

VARIABLES
    \* ChangeProcessor
    buffer,          \* Map<pubkey, BufferedUpdate>
    isProcessing,    \* reentrancy flag of processBuffer
    processInterval, \* TRUE while the flush timer is set
    stats,           \* updatesReceived, changesDetected, lastProcessedSlot
    \* processBuffer's locals while it is suspended
    flushPc,         \* "idle" | "lookup" (in getLatestHashes) | "insert"
    updates,         \* the snapshot Array.from(buffer.values()), by pubkey
    todo,            \* programs of updatesByProgram not yet looked up
    states,          \* AccountState rows collected so far
    \* Store: table account_state
    store,           \* set of rows
    \* worker process (index.ts)
    shutdownPc,      \* "running" | "draining" (in await flush()) | "exited"
                     \* (status 0) | "failed" (status 1)
    \* GrpcClient
    stream,          \* the session this.stream holds, or NoStream
    subscriptions,   \* Map<programId, subscriptionKey>
    reconnecting,
    reconnectAttempts,
    pingInterval,    \* TRUE while the keepalive timer is set
    reconnectTimer,  \* delay of the pending setTimeout, or NoTimer
    connectPc,       \* "idle" | "main" | "reconnect": who awaits subscribe()
    \* the feed
    sessions,        \* session -> "unopened" | "open" | "errored" |
                     \* "closing" (ended by the client) | "ended"
    feedFilters,     \* session -> the owners of its last subscribe request
    \* history variables (not program state)
    arrived,         \* buffered pubkey -> the last update delivered for it and
                     \* the number delivered since the buffer was last cleared
    snapArrived,     \* arrived, as it was when the flush in flight began
    retry,           \* "pending" from a failed flush until an update arrives,
                     \* "done" once the next flush has succeeded, else "none"
    drainPending,    \* updates buffered when shutdown began, not yet flushed
    failures,        \* failed Store calls so far
    scenario,        \* the updates delivered so far by the end-to-end scenario
    consecutiveFailed, \* failed reconnects since the last successful one
    \* cleanup job (cleanup.ts)
    maxChanges,      \* MAX_CHANGES_PER_ACCOUNT, as the environment sets it
    job,             \* cleanupProgram's locals while it is suspended
    \* toBase58
    b58,             \* input, encoding and decoding of one key
    \* history variable of the client's session
    wire             \* the last request written to a session and the parity
                     \* of the number of requests written so far; whether
                     \* handleDisconnect has returned at line 301 since the
                     \* last session was opened

procVars == <<buffer, isProcessing, processInterval, stats>>
flushVars == <<flushPc, updates, todo, states>>
grpcVars == <<stream, subscriptions, reconnecting, reconnectAttempts,
              pingInterval, reconnectTimer, connectPc>>
feedVars == <<sessions, feedFilters>>
histVars == <<arrived, snapArrived, retry, drainPending, failures, scenario>>
jobVars == <<maxChanges, job, b58>>
vars == <<procVars, flushVars, store, shutdownPc, grpcVars, feedVars,
          histVars, consecutiveFailed, jobVars, wire>>

\* cleanup.ts: parseInt(process.env.MAX_CHANGES_PER_ACCOUNT || "10")
DefaultMaxChanges == 10

\* no cleanup job running, no key being encoded
IdleJob ==
    [pc |-> "idle", programId |-> "", offset |-> 0, pageLen |-> 0,
     batch |-> << >>, cutoff |-> 0, totalDeleted |-> 0, totalAccounts |-> 0,
     \* history: the rows the cutoff was read from, and whether a delete
     \* met a row that was inserted after its cutoff was read
     seen |-> {}, raced |-> FALSE,
     \* history: the records whose prune has returned without a Store error,
     \* and those whose prune has met one
     pruned |-> {}, failed |-> {}]
NoKey == [pc |-> "idle"]

NoStream == 0

\* nothing written yet
NoRequest ==
    [session |-> NoStream, accounts |-> EmptyMap, parity |-> 0,
     ignored |-> FALSE]
NoTimer == 0
Sessions == 1..MaxSessions

(***************************************************************************)
(* Store (db.ts and the account_state table behind it).                    *)
(***************************************************************************)
RowsOf(st, programId, pubkey) ==
    {r \in st : r.program_id = programId /\ r.pubkey = pubkey}

\* RPC get_latest_hashes: the data_hash of the newest row of the record
LatestHash(st, programId, pubkey) ==
    LET rows == RowsOf(st, programId, pubkey)
    IN  IF rows = {} THEN NoHash
        ELSE (CHOOSE r \in rows :
                 \A q \in rows : q.created_at <= r.created_at).data_hash

\* getLatestHashes: a Map holding only the pubkeys that have a row
getLatestHashes(st, programId, pubkeys) ==
    [pk \in {k \in pubkeys : RowsOf(st, programId, k) # {}} |->
        LatestHash(st, programId, pk)]

\* created_at DEFAULT now(): one timestamp per insert statement, newer than
\* every row already committed
Now(st) ==
    IF st = {} THEN 1
    ELSE 1 + (CHOOSE t \in {r.created_at : r \in st} :
                 \A r \in st : r.created_at <= t)

Stamp(row, t) ==
    [program_id |-> row.program_id, pubkey |-> row.pubkey, created_at |-> t,
     slot |-> row.slot, discriminator |-> row.discriminator,
     change_type |-> row.change_type, data |-> row.data,
     data_hash |-> row.data_hash]

\* insertAccountStates: one insert statement, all rows or none
insertAccountStates(st, rows) ==
    IF rows = {} THEN st ELSE st \cup {Stamp(r, Now(st)) : r \in rows}

\* storeBaselines of the indexer: the create row of one account
BaselineRow(programId, pubkey, data) ==
    [pubkey |-> pubkey, program_id |-> programId,
     discriminator |-> HexOfPrefix(data), slot |-> 0,
     change_type |-> "create", data |-> Base64(data),
     data_hash |-> Sha256Hex(data)]

(***************************************************************************)
(* ChangeProcessor (processor.ts).                                         *)
(***************************************************************************)
\* a variant that forgets the empty-data case
IsDeleted_LamportsOnly(update) == update.lamports = 0

\* addUpdate, line 76
IsDeleted(update) == update.lamports = 0 \/ Len(update.data) = 0

\* addUpdate, lines 67-86
Buffered(update) ==
    [pubkey |-> update.pubkey, programId |-> update.owner,
     slot |-> update.slot, data |-> update.data,
     dataHash |-> Sha256Hex(update.data),
     discriminator |-> HexOfPrefix(update.data),
     isDeleted |-> IsDeleted(update)]

\* a variant that keeps the entry a key already has
MapSet_KeepFirst(map, key, value) ==
    [k \in DOMAIN map \cup {key} |-> IF k \in DOMAIN map THEN map[k] ELSE value]

\* Map.set: the entry of the key is replaced, the others are kept
MapSet(map, key, value) ==
    [k \in DOMAIN map \cup {key} |-> IF k = key THEN value ELSE map[k]]

\* a variant that never classifies a delete
ChangeTypeOf_AlwaysUpdate(update) == "update"

\* a variant in which an account that is not deleted counts as created
ChangeTypeOf_Create(update) == IF update.isDeleted THEN "delete" ELSE "create"

\* processBuffer, lines 140-142
ChangeTypeOf(update) == IF update.isDeleted THEN "delete" ELSE "update"

\* a variant without the baseline test of lines 134-136
IsChange_NoBaselineTest(existingHashes, update) ==
    \/ update.pubkey \notin DOMAIN existingHashes
    \/ existingHashes[update.pubkey] # update.dataHash

\* a variant without the comparison of line 139
IsChange_NoComparison(existingHashes, update) ==
    update.pubkey \in DOMAIN existingHashes

\* processBuffer, lines 134-139: the update has a baseline and differs from it
IsChange(existingHashes, update) ==
    /\ update.pubkey \in DOMAIN existingHashes
    /\ existingHashes[update.pubkey] # update.dataHash

\* processBuffer, lines 144-152
StateOf(update) ==
    [pubkey |-> update.pubkey, program_id |-> update.programId,
     discriminator |-> update.discriminator, slot |-> NumberOf(update.slot),
     change_type |-> ChangeTypeOf(update), data |-> Base64(update.data),
     data_hash |-> update.dataHash]

\* processBuffer, lines 118-163: the rows of one program's group
ProgramStates(st, snapshot, programId) ==
    LET programUpdates ==
            {snapshot[pk] : pk \in {k \in DOMAIN snapshot :
                                      snapshot[k].programId = programId}}
        existingHashes ==
            getLatestHashes(st, programId, {u.pubkey : u \in programUpdates})
    IN  {StateOf(u) : u \in {v \in programUpdates : IsChange(existingHashes, v)}}

\* processBuffer, line 174: buffer.clear()
ClearedBuffer(buf, snapshot) == EmptyMap

(***************************************************************************)
(* GrpcClient.disconnect (grpc.ts), as shutdown calls it.                  *)
(***************************************************************************)
\* stream.end(): the client closes its side of the session it holds
EndStream(ss, s) ==
    IF s # NoStream /\ ss[s] = "open" THEN [ss EXCEPT ![s] = "closing"] ELSE ss

disconnect ==
    /\ pingInterval' = FALSE
    /\ sessions' = EndStream(sessions, stream)
    /\ stream' = NoStream
    /\ subscriptions' = EmptyMap
    /\ UNCHANGED <<reconnecting, reconnectAttempts, reconnectTimer, connectPc,
                   feedFilters, consecutiveFailed>>

(***************************************************************************)
(* Actions of the change processor.                                        *)
(***************************************************************************)
\* a variant in which the flush in flight reads the Map itself, not a copy
\* of its values
addUpdate_NoSnapshot(update) ==
    /\ shutdownPc # "exited"
    /\ stats' = [stats EXCEPT
                   !.updatesReceived = @ + 1,
                   !.lastProcessedSlot =
                       IF update.slot > @ THEN update.slot ELSE @]
    /\ buffer' = MapSet(buffer, update.pubkey, Buffered(update))
    /\ updates' = IF flushPc = "idle" THEN updates ELSE buffer'
    /\ arrived' = [k \in DOMAIN arrived \cup {update.pubkey} |->
                      IF k # update.pubkey THEN arrived[k]
                      ELSE [last |-> update,
                            n |-> IF k \in DOMAIN arrived
                                  THEN arrived[k].n + 1 ELSE 1]]
    /\ retry' = "none"
    /\ UNCHANGED <<isProcessing, processInterval, flushPc, todo, states, store,
                   shutdownPc, grpcVars, feedVars, snapArrived, drainPending,
                   failures, consecutiveFailed>>

\* addUpdate(update): the callback of every decoded account update
addUpdate(update) ==
    /\ shutdownPc # "exited"
    /\ stats' = [stats EXCEPT
                   !.updatesReceived = @ + 1,
                   !.lastProcessedSlot =
                       IF update.slot > @ THEN update.slot ELSE @]
    /\ buffer' = MapSet(buffer, update.pubkey, Buffered(update))
    /\ arrived' = [k \in DOMAIN arrived \cup {update.pubkey} |->
                      IF k # update.pubkey THEN arrived[k]
                      ELSE [last |-> update,
                            n |-> IF k \in DOMAIN arrived
                                  THEN arrived[k].n + 1 ELSE 1]]
    /\ retry' = "none"
    /\ UNCHANGED <<isProcessing, processInterval, flushVars, store, shutdownPc,
                   grpcVars, feedVars, snapArrived, drainPending, failures,
                   consecutiveFailed>>

\* processBuffer, lines 99-121: past the guard, up to the first lookup
StartFlush ==
    /\ isProcessing' = TRUE
    /\ flushPc' = "lookup"
    /\ updates' = buffer
    /\ todo' = {buffer[pk].programId : pk \in DOMAIN buffer}
    /\ states' = {}
    /\ snapArrived' = arrived

\* processBuffer, lines 177-179, and what awaits it: shutdown, suspended in
\* await processor.flush(), goes on to disconnect and process.exit(0)
EndFlush ==
    /\ isProcessing' = FALSE
    /\ flushPc' = "idle"
    /\ updates' = EmptyMap
    /\ todo' = {}
    /\ states' = {}
    /\ snapArrived' = EmptyMap
    /\ IF shutdownPc = "draining"
       THEN shutdownPc' = "exited" /\ disconnect
       ELSE UNCHANGED <<shutdownPc, grpcVars, feedVars, consecutiveFailed>>

\* a flush ran to its end: the updates it compared are flushed
Flushed(pending, snapshot) ==
    [pk \in {k \in DOMAIN pending :
               ~(k \in DOMAIN snapshot /\ snapshot[k] = pending[k])} |->
        pending[pk]]

\* a variant without the test of isProcessing
TimerFlush_NoGuard ==
    /\ processInterval
    /\ buffer # EmptyMap
    /\ StartFlush
    /\ UNCHANGED <<buffer, processInterval, stats, store, shutdownPc,
                   grpcVars, feedVars, arrived, retry, drainPending, failures,
                   scenario, consecutiveFailed,
                   jobVars, wire>>

\* the timer of start() fires processBuffer()
TimerFlush ==
    /\ processInterval
    /\ ~isProcessing
    /\ buffer # EmptyMap
    /\ StartFlush
    /\ UNCHANGED <<buffer, processInterval, stats, store, shutdownPc,
                   grpcVars, feedVars, arrived, retry, drainPending, failures,
                   scenario, consecutiveFailed,
                   jobVars, wire>>

\* getLatestHashes of one program returns; after the last program either
\* the insert is sent or, with no change found, the buffer is cleared
LookupOk(programId) ==
    /\ flushPc = "lookup"
    /\ shutdownPc # "exited"
    /\ programId \in todo
    /\ LET found == ProgramStates(store, updates, programId)
           all == states \cup found
       IN  /\ stats' = [stats EXCEPT
                          !.changesDetected = @ + Cardinality(found)]
           /\ IF todo # {programId}
              THEN /\ todo' = todo \ {programId}
                   /\ states' = all
                   /\ UNCHANGED <<buffer, isProcessing, flushPc, updates,
                                  shutdownPc, grpcVars, feedVars, snapArrived,
                                  retry, drainPending, consecutiveFailed>>
              ELSE IF all # {}
              THEN /\ todo' = {}
                   /\ states' = all
                   /\ flushPc' = "insert"
                   /\ UNCHANGED <<buffer, isProcessing, updates, shutdownPc,
                                  grpcVars, feedVars, snapArrived, retry,
                                  drainPending, consecutiveFailed>>
              ELSE /\ buffer' = ClearedBuffer(buffer, updates)
                   /\ drainPending' = Flushed(drainPending, updates)
                   /\ retry' = IF retry = "pending" THEN "done" ELSE "none"
                   /\ EndFlush
    /\ arrived' = [pk \in DOMAIN arrived \cap DOMAIN buffer' |-> arrived[pk]]
    /\ UNCHANGED <<processInterval, store, failures, scenario,
                   jobVars, wire>>

\* insertAccountStates returns without error
InsertOk ==
    /\ flushPc = "insert"
    /\ shutdownPc # "exited"
    /\ store' = insertAccountStates(store, states)
    /\ buffer' = ClearedBuffer(buffer, updates)
    /\ drainPending' = Flushed(drainPending, updates)
    /\ retry' = IF retry = "pending" THEN "done" ELSE "none"
    /\ EndFlush
    /\ arrived' = [pk \in DOMAIN arrived \cap DOMAIN buffer' |-> arrived[pk]]
    /\ UNCHANGED <<processInterval, stats, failures, scenario,
                   jobVars, wire>>

\* a variant without the finally block: the flag stays set
StoreFails_NoFinally ==
    /\ flushPc \in {"lookup", "insert"}
    /\ shutdownPc # "exited"
    /\ failures < MaxFailures
    /\ failures' = failures + 1
    /\ retry' = "pending"
    /\ flushPc' = "idle"
    /\ updates' = EmptyMap
    /\ todo' = {}
    /\ states' = {}
    /\ snapArrived' = EmptyMap
    /\ UNCHANGED <<buffer, isProcessing, processInterval, stats, store,
                   shutdownPc, grpcVars, feedVars, arrived, drainPending,
                   scenario, consecutiveFailed, jobVars, wire>>

\* a variant whose finally block clears the buffer
StoreFails_Clearing ==
    /\ flushPc \in {"lookup", "insert"}
    /\ shutdownPc # "exited"
    /\ failures < MaxFailures
    /\ failures' = failures + 1
    /\ retry' = "pending"
    /\ EndFlush
    /\ buffer' = EmptyMap
    /\ arrived' = EmptyMap
    /\ UNCHANGED <<processInterval, stats, store, drainPending, scenario,
                   jobVars, wire>>

\* getLatestHashes or insertAccountStates throws: the catch logs, buffer kept
StoreFails ==
    /\ flushPc \in {"lookup", "insert"}
    /\ shutdownPc # "exited"
    /\ failures < MaxFailures
    /\ failures' = failures + 1
    /\ retry' = "pending"
    /\ EndFlush
    /\ UNCHANGED <<buffer, processInterval, stats, store, arrived,
                   drainPending, scenario,
                   jobVars, wire>>

\* SIGINT or SIGTERM: shutdown() of index.ts up to await processor.flush(),
\* and beyond it when flush() has nothing to await
Shutdown ==
    /\ shutdownPc = "running"
    /\ processInterval' = FALSE
    /\ drainPending' = buffer
    /\ IF buffer # EmptyMap /\ ~isProcessing
       THEN /\ StartFlush
            /\ shutdownPc' = "draining"
            /\ UNCHANGED <<grpcVars, feedVars, consecutiveFailed>>
       ELSE /\ shutdownPc' = "exited"
            /\ disconnect
            /\ UNCHANGED <<isProcessing, flushVars, snapArrived>>
    /\ UNCHANGED <<buffer, stats, store, arrived, retry, failures, scenario,
                   jobVars, wire>>

(***************************************************************************)
(* The worker after main() has started it: connected, both programs        *)
(* subscribed, the flush timer set, nothing buffered, and in the table the *)
(* baselines the indexer has stored so far.                                *)
(***************************************************************************)
\* the data the indexer found in every account it has stored
BaselineData == <<2, 0, 0, 0, 0, 0, 0, 1>>

\* storeBaselines: the create rows of one insert statement
Baselines(seed) ==
    insertAccountStates({},
        {BaselineRow(OwnerOf(pk), pk, seed[pk]) : pk \in DOMAIN seed})

SeededStores ==
    {Baselines([pk \in seeded |-> BaselineData]) : seeded \in SUBSET Pubkeys}

subscriptionKey(programId) == <<"program_", programId>>

\* the processor and the client of a worker that main() has started
RunningWorker ==
    /\ buffer = EmptyMap
    /\ isProcessing = FALSE
    /\ processInterval = TRUE
    /\ stats = [updatesReceived |-> 0, changesDetected |-> 0,
                lastProcessedSlot |-> 0]
    /\ flushPc = "idle"
    /\ updates = EmptyMap
    /\ todo = {}
    /\ states = {}
    /\ shutdownPc = "running"
    /\ stream = 1
    /\ subscriptions = [p \in Programs |-> subscriptionKey(p)]
    /\ reconnecting = FALSE
    /\ reconnectAttempts = 0
    /\ pingInterval = TRUE
    /\ reconnectTimer = NoTimer
    /\ connectPc = "idle"
    /\ sessions = [s \in Sessions |-> IF s = 1 THEN "open" ELSE "unopened"]
    /\ feedFilters = [s \in Sessions |-> IF s = 1 THEN Programs ELSE {}]
    /\ arrived = EmptyMap
    /\ snapArrived = EmptyMap
    /\ retry = "none"
    /\ drainPending = EmptyMap
    /\ failures = 0
    /\ scenario = << >>
    /\ consecutiveFailed = 0
    /\ wire = NoRequest

InitWorker ==
    /\ RunningWorker
    /\ store \in SeededStores
    /\ maxChanges = DefaultMaxChanges
    /\ job = IdleJob
    /\ b58 = NoKey

\* the feed delivers an update; every update carries the next slot
Deliver ==
    /\ stats.updatesReceived < MaxUpdates
    /\ \E update \in AccountUpdates(stats.updatesReceived + 1) :
          addUpdate(update)
    /\ UNCHANGED <<scenario, jobVars, wire>>

\* the worker while it runs
NextWorker ==
    \/ Deliver
    \/ TimerFlush
    \/ \E programId \in Programs : LookupOk(programId)
    \/ InsertOk
    \/ StoreFails

Spec == InitWorker /\ [][NextWorker]_vars

\* the worker up to its exit, with a Store that answers every call
NextDrain ==
    \/ Deliver
    \/ TimerFlush
    \/ \E programId \in Programs : LookupOk(programId)
    \/ InsertOk
    \/ Shutdown

SpecDrain == InitWorker /\ [][NextDrain]_vars

(***************************************************************************)
(* Properties of the change processor.                                     *)
(***************************************************************************)
\* a step in which a flush ends without a Store failure
FlushSucceeds ==
    flushPc # "idle" /\ flushPc' = "idle" /\ failures' = failures

\* a step in which a flush ends in its catch block
FlushFails == flushPc # "idle" /\ failures' = failures + 1

\* the rows a step inserts, without their timestamp
Unstamped(rows) ==
    {[program_id |-> r.program_id, pubkey |-> r.pubkey, slot |-> r.slot,
      discriminator |-> r.discriminator, change_type |-> r.change_type,
      data |-> r.data, data_hash |-> r.data_hash] : r \in rows}

Inserted == store' \ store

HasBaseline(st, programId, pubkey) == RowsOf(st, programId, pubkey) # {}

\* the rows one flush of a buffer against a Store is to insert (section 4.3,
\* steps 5 to 7)
ExpectedRows(buf, st) ==
    {[program_id |-> buf[pk].programId, pubkey |-> pk, slot |-> buf[pk].slot,
      discriminator |-> buf[pk].discriminator,
      change_type |-> IF buf[pk].isDeleted THEN "delete" ELSE "update",
      data |-> Base64(buf[pk].data), data_hash |-> buf[pk].dataHash] :
       pk \in {k \in DOMAIN buf :
                 /\ HasBaseline(st, buf[k].programId, k)
                 /\ LatestHash(st, buf[k].programId, k) # buf[k].dataHash}}

\* C1: an update added to the buffer after a flush took its snapshot (its
\* pubkey is not in the snapshot, or its entry replaced the snapshotted one)
\* is still in the buffer when that flush completes successfully.
C1_AddedDuringFlushIsKept ==
    [][FlushSucceeds =>
         \A pk \in DOMAIN buffer :
            (pk \notin DOMAIN updates \/ updates[pk] # buffer[pk]) =>
               (pk \in DOMAIN buffer' /\ buffer'[pk] = buffer[pk])]_vars

\* C2: a flush whose lookup or insert fails removes no buffer entry and
\* persists no row, and the next flush, with no addUpdate in between and
\* the Store unchanged, inserts exactly the rows one successful flush of
\* that buffer inserts.
C2_FailedFlushIsRetriedIntact ==
    [][/\ FlushFails => (buffer' = buffer /\ store' = store)
       /\ (FlushSucceeds /\ retry = "pending") =>
             Unstamped(Inserted) = ExpectedRows(buffer, store)]_vars

\* a failed flush was retried and the retry inserted a row
C2_Witness ==
    /\ retry = "done"
    /\ \E r \in store : r.change_type # "create"

\* C3: when the process has exited with status 0, every update that was in
\* the buffer when shutdown began has been compared by a flush that ran to
\* its end.
C3_DrainedBeforeExit ==
    shutdownPc = "exited" => drainPending = EmptyMap

\* C5: no row is ever inserted for a record without a baseline: every
\* record that has rows has the create row of the indexer.
C5_NoRowWithoutBaseline ==
    \A programId \in Programs, pk \in Pubkeys :
       RowsOf(store, programId, pk) # {} =>
          \E r \in RowsOf(store, programId, pk) : r.change_type = "create"

\* a flush has looked up an update of a record without a baseline and is
\* about to insert the rows it collected
C5_Witness ==
    /\ flushPc = "insert"
    /\ \E pk \in DOMAIN updates :
          ~HasBaseline(store, updates[pk].programId, pk)

\* C6: a flushed update whose dataHash equals the last stored hash of its
\* pubkey produces no row.
C6_UnchangedHashNoRow ==
    [][FlushSucceeds =>
         \A pk \in DOMAIN snapArrived :
            LatestHash(store, snapArrived[pk].last.owner, pk)
                  = Sha256Hex(snapArrived[pk].last.data)
               => ~ \E r \in Inserted : r.pubkey = pk]_vars

\* a flush has compared an update that carries the stored hash and is about
\* to insert the rows of other records
C6_Witness ==
    /\ flushPc = "insert"
    /\ \E pk \in DOMAIN updates :
          /\ HasBaseline(store, updates[pk].programId, pk)
          /\ LatestHash(store, updates[pk].programId, pk) = updates[pk].dataHash

\* C7: a flushed update with a baseline whose hash differs from the last
\* stored hash produces exactly one row, a delete row when lamports is zero
\* or the data is empty, an update row otherwise.
C7_ChangedHashOneRow ==
    [][FlushSucceeds =>
         \A pk \in DOMAIN snapArrived :
            LET u == snapArrived[pk].last
                rows == {r \in Inserted : r.pubkey = pk}
            IN  (/\ HasBaseline(store, u.owner, pk)
                 /\ LatestHash(store, u.owner, pk) # Sha256Hex(u.data))
                => /\ Cardinality(rows) = 1
                   /\ \A r \in rows :
                        r.change_type =
                          IF u.lamports = 0 \/ u.data = << >>
                          THEN "delete" ELSE "update"]_vars

\* the Store holds an update row and a delete row
C7_Witness ==
    /\ \E r \in store : r.change_type = "update"
    /\ \E r \in store : r.change_type = "delete"

\* C8: a flush inserts at most one row for a pubkey, and the row carries
\* the data, dataHash, slot and changeType of the last update delivered for
\* that pubkey before the flush took its snapshot.
C8_LastUpdateWins ==
    [][FlushSucceeds =>
         /\ \A r, q \in Inserted : r.pubkey = q.pubkey => r = q
         /\ \A r \in Inserted :
              /\ r.pubkey \in DOMAIN snapArrived
              /\ LET u == snapArrived[r.pubkey].last
                 IN  /\ r.data = Base64(u.data)
                     /\ r.data_hash = Sha256Hex(u.data)
                     /\ r.slot = u.slot
                     /\ r.change_type =
                          IF u.lamports = 0 \/ u.data = << >>
                          THEN "delete" ELSE "update"]_vars

\* a flush is about to insert the row of a pubkey for which two updates
\* were delivered before its snapshot
C8_Witness ==
    /\ flushPc = "insert"
    /\ \E pk \in DOMAIN snapArrived :
          /\ snapArrived[pk].n >= 2
          /\ \E r \in states : r.pubkey = pk

(***************************************************************************)
(* The end-to-end scenario of section 8: one record P is seeded with the   *)
(* baseline hash H0, then three updates of P are delivered, each after the *)
(* flush of the one before has ended.                                      *)
(***************************************************************************)
\* the updates the scenario may deliver as its next one: the first carries
\* the baseline's content, the second a new content and a non-zero weight,
\* the third a zero weight
ScenarioUpdates(P) ==
    {u \in AccountUpdates(stats.updatesReceived + 1) :
        /\ u.pubkey = P
        /\ CASE Len(scenario) = 0 -> u.data = BaselineData
             [] Len(scenario) = 1 -> u.data # BaselineData /\ u.lamports # 0
             [] OTHER -> u.lamports = 0}

Quiescent == flushPc = "idle" /\ buffer = EmptyMap

ScenarioDeliver ==
    /\ Len(scenario) < 3
    /\ Quiescent
    /\ \E P \in {r.pubkey : r \in store} :
          \E update \in ScenarioUpdates(P) :
             /\ addUpdate(update)
             /\ scenario' = Append(scenario, update)
    /\ UNCHANGED <<jobVars, wire>>

InitE2E ==
    /\ InitWorker
    /\ \E P \in Pubkeys : store = Baselines([pk \in {P} |-> BaselineData])

NextE2E ==
    \/ ScenarioDeliver
    \/ TimerFlush
    \/ \E programId \in Programs : LookupOk(programId)
    \/ InsertOk
    \/ StoreFails

SpecE2E == InitE2E /\ [][NextE2E]_vars

\* the newest row of the Store
Newest(st) == CHOOSE r \in st : \A q \in st : q.created_at <= r.created_at

\* what the scenario is to have written once its deliveries are flushed
ScenarioOutcome ==
    /\ Len(scenario) = 1 => Cardinality(store) = 1
    /\ Len(scenario) = 2 =>
          /\ Cardinality(store) = 2
          /\ Newest(store).change_type = "update"
          /\ Newest(store).data_hash = Sha256Hex(scenario[2].data)
    /\ Len(scenario) = 3 =>
          /\ Cardinality(store) = 3
          /\ Newest(store).change_type = "delete"

\* C9 as stated: the update with the baseline's hash writes no row, the
\* update with a new hash and a non-zero weight writes one update row with
\* that hash, the update with zero weight writes one delete row.
C9_EndToEnd == Quiescent => ScenarioOutcome

\* C9 as amended: the same, for a second update whose data is not empty and
\* a third update whose content differs from the second's.
C9_EndToEndAmended ==
    (/\ Quiescent
     /\ Len(scenario) >= 2 => scenario[2].data # << >>
     /\ Len(scenario) = 3 => scenario[3].data # scenario[2].data)
    => ScenarioOutcome

\* the three deliveries of the amended scenario are flushed
C9_Witness ==
    /\ Quiescent
    /\ Len(scenario) = 3
    /\ scenario[2].data # << >>
    /\ scenario[3].data # scenario[2].data
    /\ Cardinality(store) = 3
    /\ scenario[2].data # << >>
    /\ scenario[3].data # scenario[2].data
    /\ Cardinality(store) = 3

(***************************************************************************)
(* GrpcClient (grpc.ts): connection, subscriptions, reconnection.          *)
(***************************************************************************)
Min(a, b) == IF a <= b THEN a ELSE b

RECURSIVE Pow2(_)
Pow2(n) == IF n = 0 THEN 1 ELSE 2 * Pow2(n - 1)

\* a variant without the ceiling of maxReconnectDelay
ReconnectDelay_Uncapped(attempts) == baseReconnectDelay * Pow2(attempts)

\* handleDisconnect, lines 315-318
ReconnectDelay(attempts) ==
    Min(baseReconnectDelay * Pow2(attempts), maxReconnectDelay)

\* a variant without the ceiling of maxReconnectAttempts
handleDisconnect_NoCeiling(isReconnecting) ==
    IF isReconnecting
    THEN /\ reconnecting' = TRUE
         /\ UNCHANGED <<pingInterval, reconnectAttempts, reconnectTimer>>
    ELSE /\ pingInterval' = FALSE
         /\ reconnecting' = TRUE
         /\ reconnectTimer' = ReconnectDelay(reconnectAttempts)
         /\ reconnectAttempts' = reconnectAttempts + 1

\* a variant without the test of this.reconnecting
handleDisconnect_NoGuard(isReconnecting) ==
    /\ pingInterval' = FALSE
    /\ IF reconnectAttempts >= maxReconnectAttempts
       THEN /\ reconnecting' = FALSE
            /\ UNCHANGED <<reconnectAttempts, reconnectTimer>>
       ELSE /\ reconnecting' = TRUE
            /\ reconnectTimer' = ReconnectDelay(reconnectAttempts)
            /\ reconnectAttempts' = reconnectAttempts + 1

\* a variant that gives up when the counter exceeds maxReconnectAttempts
handleDisconnect_Exceeds(isReconnecting) ==
    IF isReconnecting
    THEN /\ reconnecting' = TRUE
         /\ UNCHANGED <<pingInterval, reconnectAttempts, reconnectTimer>>
    ELSE /\ pingInterval' = FALSE
         /\ IF reconnectAttempts > maxReconnectAttempts
            THEN /\ reconnecting' = FALSE
                 /\ UNCHANGED <<reconnectAttempts, reconnectTimer>>
            ELSE /\ reconnecting' = TRUE
                 /\ reconnectTimer' = ReconnectDelay(reconnectAttempts)
                 /\ reconnectAttempts' = reconnectAttempts + 1

\* handleDisconnect, called while this.reconnecting has the value given
handleDisconnect(isReconnecting) ==
    IF isReconnecting
    THEN /\ reconnecting' = TRUE
         /\ UNCHANGED <<pingInterval, reconnectAttempts, reconnectTimer>>
    ELSE /\ pingInterval' = FALSE
         /\ IF reconnectAttempts >= maxReconnectAttempts
            THEN /\ reconnecting' = FALSE
                 /\ UNCHANGED <<reconnectAttempts, reconnectTimer>>
            ELSE /\ reconnecting' = TRUE
                 /\ reconnectTimer' = ReconnectDelay(reconnectAttempts)
                 /\ reconnectAttempts' = reconnectAttempts + 1

\* a variant that clears the Map and subscribes nothing again
resubscribeAll_Forgets(subs, strm) == EmptyMap

\* resubscribeAll: the Map is cleared and every program of it subscribed
\* again, which subscribeToProgram refuses without a stream
resubscribeAll(subs, strm) ==
    IF strm = NoStream THEN EmptyMap
    ELSE [programId \in DOMAIN subs |-> subscriptionKey(programId)]

Alive == shutdownPc \notin {"exited", "failed"}

\* main() calls connect()
Connect ==
    /\ Alive
    /\ connectPc = "idle"
    /\ stream = NoStream
    /\ \A s \in Sessions : sessions[s] = "unopened"
    /\ connectPc' = "main"
    /\ UNCHANGED <<procVars, flushVars, store, shutdownPc, stream,
                   subscriptions, reconnecting, reconnectAttempts,
                   pingInterval, reconnectTimer, feedVars, histVars,
                   consecutiveFailed,
                   jobVars, wire>>

\* client.subscribe() resolves: connect(), lines 86-120, and for the
\* reconnect timer's callback lines 328-330
ConnectOk ==
    /\ Alive
    /\ connectPc # "idle"
    /\ \E s \in Sessions :
          /\ sessions[s] = "unopened"
          /\ \A t \in Sessions : t < s => sessions[t] # "unopened"
          /\ sessions' = [sessions EXCEPT ![s] = "open"]
          /\ stream' = s
          /\ subscriptions' = resubscribeAll(subscriptions, s)
    /\ pingInterval' = TRUE
    /\ connectPc' = "idle"
    /\ IF connectPc = "reconnect"
       THEN /\ reconnectAttempts' = 0
            /\ reconnecting' = FALSE
            /\ consecutiveFailed' = 0
       ELSE UNCHANGED <<reconnectAttempts, reconnecting, consecutiveFailed>>
    /\ wire' = [wire EXCEPT !.ignored = FALSE]
    /\ UNCHANGED <<procVars, flushVars, store, shutdownPc, reconnectTimer,
                   feedFilters, histVars,
                   jobVars>>

\* client.subscribe() rejects: main() exits with status 1; the reconnect
\* timer's callback (lines 331-335) retries
ConnectFails ==
    /\ Alive
    /\ connectPc # "idle"
    /\ connectPc' = "idle"
    /\ IF connectPc = "main"
       THEN /\ shutdownPc' = "failed"
            /\ UNCHANGED <<reconnecting, reconnectAttempts, pingInterval,
                           reconnectTimer, consecutiveFailed>>
       ELSE /\ handleDisconnect(FALSE)
            /\ consecutiveFailed' = consecutiveFailed + 1
            /\ UNCHANGED shutdownPc
    /\ UNCHANGED <<procVars, flushVars, store, stream, subscriptions,
                   feedVars, histVars,
                   jobVars, wire>>

\* the session signals an error: the handler of lines 105-108
StreamError(s) ==
    /\ Alive
    /\ sessions[s] = "open"
    /\ sessions' = [sessions EXCEPT ![s] = "errored"]
    /\ handleDisconnect(reconnecting)
    /\ wire' = [wire EXCEPT !.ignored = @ \/ reconnecting]
    /\ UNCHANGED <<procVars, flushVars, store, shutdownPc, stream,
                   subscriptions, connectPc, feedFilters, histVars,
                   consecutiveFailed,
                   jobVars>>

\* the session ends: the handler of lines 111-114
StreamEnd(s) ==
    /\ Alive
    /\ sessions[s] \in {"open", "errored", "closing"}
    /\ sessions' = [sessions EXCEPT ![s] = "ended"]
    /\ handleDisconnect(reconnecting)
    /\ wire' = [wire EXCEPT !.ignored = @ \/ reconnecting]
    /\ UNCHANGED <<procVars, flushVars, store, shutdownPc, stream,
                   subscriptions, connectPc, feedFilters, histVars,
                   consecutiveFailed,
                   jobVars>>

\* the setTimeout of handleDisconnect fires: its callback calls connect()
ReconnectTimerFires ==
    /\ Alive
    /\ reconnectTimer # NoTimer
    /\ connectPc = "idle"
    /\ reconnectTimer' = NoTimer
    /\ connectPc' = "reconnect"
    /\ UNCHANGED <<procVars, flushVars, store, shutdownPc, stream,
                   subscriptions, reconnecting, reconnectAttempts,
                   pingInterval, feedVars, histVars, consecutiveFailed,
                   jobVars, wire>>

\* a variant that starts the Map afresh with the program
WithProgram_Alone(subs, programId) ==
    [k \in {programId} |-> subscriptionKey(programId)]

\* subscribeToProgram, lines 133-140: the Map after it
WithProgram(subs, programId) ==
    IF programId \in DOMAIN subs THEN subs
    ELSE MapSet(subs, programId, subscriptionKey(programId))

\* subscribeToProgram(programId) with a stream; without one it throws
subscribeToProgram(programId) ==
    /\ Alive
    /\ stream # NoStream
    /\ subscriptions' = WithProgram(subscriptions, programId)
    /\ UNCHANGED <<procVars, flushVars, store, shutdownPc, stream,
                   reconnecting, reconnectAttempts, pingInterval,
                   reconnectTimer, connectPc, feedVars, histVars,
                   consecutiveFailed,
                   jobVars, wire>>

\* a variant that stores every filter under one key, so that the last
\* entry of the Map replaces the others
AccountsFilter_OneKey(subs) ==
    IF subs = EmptyMap THEN EmptyMap
    ELSE [key \in {"program"} |->
             [owner |-> <<CHOOSE programId \in DOMAIN subs : TRUE>>,
              account |-> << >>,
              filters |-> << >>]]

\* sendSubscriptions, lines 156-164: one filter per entry of the Map, under
\* its subscription key, with the program as the only owner
AccountsFilter(subs) ==
    [key \in {subs[programId] : programId \in DOMAIN subs} |->
        [owner |-> <<CHOOSE programId \in DOMAIN subs : subs[programId] = key>>,
         account |-> << >>,
         filters |-> << >>]]

\* the owners a request's account filters name
Owners(accounts) ==
    UNION {{accounts[key].owner[i] : i \in DOMAIN accounts[key].owner} :
              key \in DOMAIN accounts}

\* this.stream.write(request): the request is the last one written
Written(accounts) ==
    [wire EXCEPT !.session = stream, !.accounts = accounts, !.parity = 1 - @]

\* sendSubscriptions, lines 150-180: the requests it writes for the Map,
\* none when the Map is empty
Requests(subs) ==
    IF subs = EmptyMap THEN << >> ELSE <<AccountsFilter(subs)>>

\* sendSubscriptions() with a stream and a request to write: the request is
\* written to the stream, and the feed takes it when the session is open
sendSubscriptions ==
    /\ Alive
    /\ stream # NoStream
    /\ Requests(subscriptions) # << >>
    /\ sessions[stream] = "open"
    /\ wire' = Written(Requests(subscriptions)[1])
    /\ feedFilters' = [feedFilters EXCEPT ![stream] = Owners(wire'.accounts)]
    /\ UNCHANGED <<procVars, flushVars, store, shutdownPc, grpcVars, sessions,
                   histVars, consecutiveFailed,
                   jobVars>>

\* the write of sendSubscriptions() calls back with an error, which a
\* session that is no longer open does: the promise rejects and main(), the
\* only caller, exits with status 1
sendSubscriptionsFails ==
    /\ Alive
    /\ stream # NoStream
    /\ Requests(subscriptions) # << >>
    /\ sessions[stream] # "open"
    /\ wire' = Written(Requests(subscriptions)[1])
    /\ shutdownPc' = "failed"
    /\ UNCHANGED <<procVars, flushVars, store, grpcVars, feedVars, histVars,
                   consecutiveFailed,
                   jobVars>>

(***************************************************************************)
(* The client after new GrpcClient(), before main() connects it.           *)
(***************************************************************************)
InitGrpc ==
    /\ buffer = EmptyMap
    /\ isProcessing = FALSE
    /\ processInterval = FALSE
    /\ stats = [updatesReceived |-> 0, changesDetected |-> 0,
                lastProcessedSlot |-> 0]
    /\ flushPc = "idle"
    /\ updates = EmptyMap
    /\ todo = {}
    /\ states = {}
    /\ store = {}
    /\ shutdownPc = "running"
    /\ stream = NoStream
    /\ subscriptions = EmptyMap
    /\ reconnecting = FALSE
    /\ reconnectAttempts = 0
    /\ pingInterval = FALSE
    /\ reconnectTimer = NoTimer
    /\ connectPc = "idle"
    /\ sessions = [s \in Sessions |-> "unopened"]
    /\ feedFilters = [s \in Sessions |-> {}]
    /\ arrived = EmptyMap
    /\ snapArrived = EmptyMap
    /\ retry = "none"
    /\ drainPending = EmptyMap
    /\ failures = 0
    /\ scenario = << >>
    /\ consecutiveFailed = 0
    /\ wire = NoRequest
    /\ maxChanges = DefaultMaxChanges
    /\ job = IdleJob
    /\ b58 = NoKey

NextGrpc ==
    \/ Connect
    \/ ConnectOk
    \/ ConnectFails
    \/ \E s \in Sessions : StreamError(s)
    \/ \E s \in Sessions : StreamEnd(s)
    \/ ReconnectTimerFires
    \/ \E programId \in Programs : subscribeToProgram(programId)
    \/ sendSubscriptions
    \/ sendSubscriptionsFails

SpecGrpc == InitGrpc /\ [][NextGrpc]_vars

(***************************************************************************)
(* Properties of the client.                                               *)
(***************************************************************************)
\* a step in which the reconnect timer's connect() resolves
ReconnectSucceeds ==
    connectPc = "reconnect" /\ connectPc' = "idle" /\ stream' # stream

\* C4: when a reconnect succeeds after the loss of a session on which the
\* entries of SubscriptionSet were the feed's filters, a subscription
\* request covering every one of them has been sent on the new session:
\* SubscriptionSet is as it was and the filters the feed holds for the new
\* session are its entries.
C4_ReconnectResendsSubscriptions ==
    [][(ReconnectSucceeds /\ feedFilters[stream] = DOMAIN subscriptions) =>
         /\ DOMAIN subscriptions' = DOMAIN subscriptions
         /\ feedFilters'[stream'] = DOMAIN subscriptions']_vars

\* the delays of section 8: 1000, 2000, 4000, 8000, 16000, 32000, 60000, ...
DelaySequence == <<1000, 2000, 4000, 8000, 16000, 32000>>

ExpectedDelay(failed) ==
    IF failed < Len(DelaySequence) THEN DelaySequence[failed + 1] ELSE 60000

\* C10: the delay of a scheduled reconnect is min(1000 * 2^attempt, 60000)
\* for attempt the number of reconnects that failed since the last
\* successful one, and the attempt counter is set back, to zero, only by a
\* successful reconnect.
C10_BackoffDelays ==
    /\ [](reconnectTimer # NoTimer =>
             reconnectTimer = ExpectedDelay(consecutiveFailed))
    /\ [][reconnectAttempts' < reconnectAttempts =>
             (ReconnectSucceeds /\ reconnectAttempts' = 0)]_vars

\* after a successful reconnect the session was lost again and six
\* reconnects failed: the seventh is scheduled at the ceiling
C10_Witness ==
    /\ stream = 2
    /\ consecutiveFailed = 6
    /\ reconnectTimer = maxReconnectDelay

\* the client has given up: maxReconnectAttempts reconnects in a row failed
GaveUp == consecutiveFailed >= maxReconnectAttempts

\* the sessions that were ever opened
Opened(ss) == {s \in Sessions : ss[s] # "unopened"}

\* C11: once the client has given up it has no reconnect scheduled and no
\* connection attempt in progress, and no step, whatever stream error or
\* end signal it delivers, schedules or makes one: the client stays given
\* up and opens no session.
C11_GaveUpIsTerminal ==
    /\ [](GaveUp => (reconnectTimer = NoTimer /\ connectPc = "idle"
                        /\ ~reconnecting))
    /\ [][GaveUp => (GaveUp' /\ Opened(sessions') = Opened(sessions)
                        /\ stream' = stream)]_vars

\* the client has given up and every signal of its lost session has been
\* delivered
C11_Witness ==
    /\ GaveUp
    /\ reconnectAttempts = maxReconnectAttempts
    /\ \A s \in Opened(sessions) : sessions[s] = "ended"

(***************************************************************************)
(* The client with disconnect() called on it while the process lives on.   *)
(***************************************************************************)
\* disconnect() called on the client
Disconnect ==
    /\ Alive
    /\ disconnect
    /\ UNCHANGED <<procVars, flushVars, store, shutdownPc, histVars,
                   jobVars, wire>>

NextClose ==
    \/ NextGrpc
    \/ Disconnect

SpecClose == InitGrpc /\ [][NextClose]_vars

\* disconnect() has returned: it alone sets the stream back to null
Disconnected == stream = NoStream /\ Opened(sessions) # {}

\* C12: disconnect() stops the keepalive timer, closes the session and
\* clears SubscriptionSet, and once it has returned no reconnect is
\* scheduled or pending, no connection attempt is made and no session is
\* opened, whatever end event or backoff timer comes after it.
C12_DisconnectIsTerminal ==
    /\ [](Disconnected =>
            /\ ~pingInterval
            /\ subscriptions = EmptyMap
            /\ \A s \in Sessions : sessions[s] # "open"
            /\ reconnectTimer = NoTimer
            /\ connectPc = "idle")
    /\ [][Disconnected => (Disconnected' /\ Opened(sessions') = Opened(sessions))]_vars

\* a step in which connect() succeeds: the client holds a new session
Connects == stream' # stream /\ stream' # NoStream

\* C37: the keepalive timer, which is the one whose handle pingInterval
\* holds, is not running while the client waits out a reconnect delay,
\* after it has given up, or after disconnect(); and every successful
\* connect() leaves one running.
C37_KeepaliveTimer ==
    /\ [](reconnectTimer # NoTimer => ~pingInterval)
    /\ [](GaveUp => ~pingInterval)
    /\ [](Disconnected => ~pingInterval)
    /\ [][Disconnected => ~pingInterval']_vars
    /\ [][Connects => pingInterval']_vars

\* C13: at every moment at most one session is open: no reconnect opens a
\* session while one opened before is still open, whichever session the
\* error or end signal that started the reconnect came from.
C13_OneOpenSession ==
    Cardinality({s \in Sessions : sessions[s] = "open"}) <= 1

\* C14: a failed connect(), a failed sendSubscriptions() or a stream error
\* or end never ends the process before the ceiling of reconnect attempts
\* is reached: the process has exited with status 1 only after
\* maxReconnectAttempts reconnects were scheduled.
C14_FailuresAreNotFatal ==
    shutdownPc = "failed" => reconnectAttempts >= maxReconnectAttempts

(***************************************************************************)
(* The client with programs subscribed and unsubscribed while it runs.     *)
(***************************************************************************)
\* this.subscriptions.delete(programId)
MapDelete(map, key) == [k \in DOMAIN map \ {key} |-> map[k]]

\* unsubscribeFromProgram, lines 206-224: the requests it writes, none for
\* a program that is not subscribed
UnsubscribeRequests(subs, programId) ==
    IF programId \notin DOMAIN subs THEN << >> ELSE <<EmptyMap>>

\* a variant that deletes the entry without waiting for the write
AfterUnsubscribe_Eager(subs, programId, error) == MapDelete(subs, programId)

\* unsubscribeFromProgram, lines 226-236: the Map when the write has called
\* back, with an error or without
AfterUnsubscribe(subs, programId, error) ==
    IF error THEN subs ELSE MapDelete(subs, programId)

\* unsubscribeFromProgram(programId) of a subscribed program, with a stream:
\* the request of lines 215-224 is written and, when the write calls back
\* without an error, the entry is deleted (lines 226-236). Without a stream
\* it throws, of a program not subscribed it returns, and a write that calls
\* back with an error, which a session that is no longer open does, rejects
\* the promise and changes nothing else.
unsubscribeFromProgram(programId) ==
    /\ Alive
    /\ stream # NoStream
    /\ UnsubscribeRequests(subscriptions, programId) # << >>
    /\ wire' = Written(UnsubscribeRequests(subscriptions, programId)[1])
    /\ subscriptions' = AfterUnsubscribe(subscriptions, programId,
                                         sessions[stream] # "open")
    /\ feedFilters' = IF sessions[stream] = "open"
                      THEN [feedFilters EXCEPT
                              ![stream] = Owners(wire'.accounts)]
                      ELSE feedFilters
    /\ UNCHANGED <<procVars, flushVars, store, shutdownPc, stream,
                   reconnecting, reconnectAttempts, pingInterval,
                   reconnectTimer, connectPc, sessions, histVars,
                   consecutiveFailed, jobVars>>

NextSubs ==
    \/ NextGrpc
    \/ \E programId \in Programs : unsubscribeFromProgram(programId)

SpecSubs == InitGrpc /\ [][NextSubs]_vars

\* the same client on a feed that accepts every connection
NextAccepting ==
    \/ Connect
    \/ ConnectOk
    \/ \E s \in Sessions : StreamError(s)
    \/ \E s \in Sessions : StreamEnd(s)
    \/ ReconnectTimerFires
    \/ \E programId \in Programs : subscribeToProgram(programId)
    \/ sendSubscriptions
    \/ sendSubscriptionsFails
    \/ \E programId \in Programs : unsubscribeFromProgram(programId)

SpecAccepting == InitGrpc /\ [][NextAccepting]_vars

\* a step in which unsubscribeFromProgram(programId) succeeds
Unsubscribed(programId) ==
    /\ stream # NoStream
    /\ stream' = stream
    /\ programId \in DOMAIN subscriptions
    /\ programId \notin DOMAIN subscriptions'

\* C21: unsubscribeFromProgram(id) of a subscribed id removes the entry of
\* id, and no other, from SubscriptionSet and writes one request that
\* reflects the smaller set: after it succeeds the request's filters, and so
\* the filters the feed holds for the session, are exactly the remaining
\* entries of SubscriptionSet.
C21_UnsubscribeSendsRemainingSet ==
    [][\A programId \in Programs : Unsubscribed(programId) =>
          /\ DOMAIN subscriptions' = DOMAIN subscriptions \ {programId}
          /\ wire'.parity # wire.parity
          /\ wire'.session = stream
          /\ Owners(wire'.accounts) = DOMAIN subscriptions'
          /\ feedFilters'[stream] = DOMAIN subscriptions']_vars

\* the request holds one account filter per entry of the Map, which names
\* the entry's program as its owner
WholeSet(accounts, subs) ==
    /\ Cardinality(DOMAIN accounts) = Cardinality(DOMAIN subs)
    /\ \A programId \in DOMAIN subs :
          \E key \in DOMAIN accounts : accounts[key].owner = <<programId>>

\* a step in which sendSubscriptions() writes: the client writes no other
\* request as long as no program is unsubscribed
SendWrites == wire'.parity # wire.parity

\* C36: no request is ever written to a session that has signalled error
\* or end: every request the client writes goes to a session that is open.
C36_NoWriteToDeadSession ==
    [][SendWrites =>
         /\ wire'.session # NoStream
         /\ sessions[wire'.session] = "open"]_vars

\* a step in which unsubscribeFromProgram writes its request
UnsubscribeWrites == SendWrites /\ wire'.accounts = EmptyMap

\* C38: unsubscribeFromProgram changes SubscriptionSet only on success:
\* when its write fails the set is as it was and still holds the id, when
\* the write succeeds exactly the id's entry is gone, no entry leaves the
\* set of a connected client in any other step, and for an id that is not
\* subscribed it writes nothing.
C38_UnsubscribeChangesSetOnSuccess ==
    /\ [](\A programId \in Programs \ DOMAIN subscriptions :
            UnsubscribeRequests(subscriptions, programId) = << >>)
    /\ [][UnsubscribeWrites =>
            IF sessions[stream] = "open"
            THEN \E programId \in DOMAIN subscriptions :
                    subscriptions' = MapDelete(subscriptions, programId)
            ELSE subscriptions' = subscriptions]_vars
    /\ [][(DOMAIN subscriptions \ DOMAIN subscriptions' # {}) =>
            /\ UnsubscribeWrites
            /\ sessions[stream] = "open"]_vars

\* both programs were subscribed and sent, the session signalled an error,
\* and the unsubscribe written to it since has failed: both are subscribed
C38_Witness ==
    /\ stream # NoStream
    /\ sessions[stream] \in {"errored", "ended"}
    /\ wire.session = stream
    /\ wire.accounts = EmptyMap
    /\ wire.parity = 0
    /\ feedFilters[stream] = Programs
    /\ DOMAIN subscriptions = Programs

\* the step writes the request of the whole Map to the session held and
\* leaves the Map as it was
WritesWholeSet ==
    /\ wire'.session = stream
    /\ WholeSet(wire'.accounts, subscriptions)
    /\ subscriptions' = subscriptions

\* C22: sendSubscriptions() writes exactly one request whose account
\* filters hold one entry per element of SubscriptionSet, each with that
\* program as owner, and leaves SubscriptionSet as it was, also when the
\* write fails: whatever SubscriptionSet a connected client holds, one
\* request is written for it.
C22_SendWritesWholeSet ==
    /\ [](stream # NoStream => Len(Requests(subscriptions)) = 1)
    /\ [][SendWrites => WritesWholeSet]_vars

\* C22 as amended: the request is written when SubscriptionSet is not
\* empty; with an empty SubscriptionSet sendSubscriptions() writes nothing.
\* When the write fails SubscriptionSet and the feed's filters are
\* unchanged; when it succeeds the feed's filters are the set's programs.
C22_SendWritesWholeSetAmended ==
    /\ [](stream # NoStream =>
             Len(Requests(subscriptions)) =
                IF subscriptions = EmptyMap THEN 0 ELSE 1)
    /\ [][SendWrites =>
              /\ WritesWholeSet
              /\ subscriptions # EmptyMap
              /\ sessions[stream] = "open" =>
                    feedFilters'[stream] = DOMAIN subscriptions
              /\ sessions[stream] # "open" =>
                    (feedFilters' = feedFilters /\ shutdownPc' = "failed")]_vars

\* the request for both programs is the last one written, to the open
\* session
C22_Witness ==
    /\ stream # NoStream
    /\ sessions[stream] = "open"
    /\ wire.session = stream
    /\ DOMAIN subscriptions = Programs
    /\ Owners(wire.accounts) = Programs
    /\ feedFilters[stream] = Programs

\* a step of a call subscribeToProgram(programId) that changes the Map
SubscribesTo(programId) ==
    /\ stream' = stream
    /\ programId \in DOMAIN subscriptions'
    /\ programId \notin DOMAIN subscriptions

\* C23: subscribeToProgram(id) called with id already in SubscriptionSet
\* leaves SubscriptionSet unchanged (calling it again changes nothing),
\* called otherwise it adds exactly one entry, for id, and keeps the
\* others; in neither case is a request written to the session or a filter
\* of the feed changed.
C23_SubscribeIsIdempotent ==
    /\ [](\A programId \in DOMAIN subscriptions :
             WithProgram(subscriptions, programId) = subscriptions)
    /\ [](\A programId \in Programs :
             LET once == WithProgram(subscriptions, programId)
             IN  /\ WithProgram(once, programId) = once
                 /\ DOMAIN once = DOMAIN subscriptions \cup {programId}
                 /\ \A other \in DOMAIN subscriptions :
                       once[other] = subscriptions[other])
    /\ [][\A programId \in Programs : SubscribesTo(programId) =>
              /\ DOMAIN subscriptions' = DOMAIN subscriptions \cup {programId}
              /\ \A other \in DOMAIN subscriptions :
                    subscriptions'[other] = subscriptions[other]
              /\ wire' = wire
              /\ feedFilters' = feedFilters]_vars

\* both programs are subscribed on a session and nothing was written
C23_Witness ==
    /\ stream # NoStream
    /\ DOMAIN subscriptions = Programs
    /\ wire = NoRequest

\* a step in which the reconnect timer's connect() fails
ReconnectFails ==
    connectPc = "reconnect" /\ connectPc' = "idle" /\ stream' = stream

\* a step in which a session signals an error or its end
Signalled ==
    \E s \in Sessions :
       sessions'[s] # sessions[s] /\ sessions'[s] \in {"errored", "ended"}

\* a reconnect is scheduled or in progress
Pending == reconnectTimer # NoTimer \/ connectPc = "reconnect"

\* the session the client holds is lost and no reconnect will be made
Abandoned ==
    /\ stream # NoStream
    /\ sessions[stream] \in {"errored", "ended"}
    /\ ~Pending

\* C24: the client gives up only after the attempt counter exceeds
\* maxReconnectAttempts: whenever a disconnect or a failed reconnect is
\* handled while the counter is at most maxReconnectAttempts, a reconnect
\* is scheduled (or already pending) afterwards.
C24_GivesUpAboveMaximum ==
    [][((Signalled \/ ReconnectFails)
           /\ reconnectAttempts <= maxReconnectAttempts) => Pending']_vars

\* C24 as amended: the client gives up once the counter has reached
\* maxReconnectAttempts. Handling a disconnect or a failed reconnect while
\* the counter is below it leaves a reconnect scheduled or pending; a
\* reconnect that fails with the counter at maxReconnectAttempts schedules
\* none; and the client has abandoned its lost session only with the
\* counter at maxReconnectAttempts.
C24_GivesUpAtMaximum ==
    /\ [][((Signalled \/ ReconnectFails)
              /\ reconnectAttempts < maxReconnectAttempts) => Pending']_vars
    /\ [][(ReconnectFails /\ reconnectAttempts >= maxReconnectAttempts) =>
              (~Pending' /\ reconnectAttempts' = maxReconnectAttempts)]_vars
    /\ [](Abandoned => reconnectAttempts = maxReconnectAttempts)

\* the last reconnect allowed has failed and none is scheduled
C24_Witness ==
    /\ Abandoned
    /\ ~reconnecting
    /\ reconnectAttempts = maxReconnectAttempts
    /\ sessions[stream] = "errored"

\* a step that schedules a reconnect
Schedules == reconnectAttempts' = reconnectAttempts + 1

\* C25: a stream error and a stream end take the same recovery path, and
\* the path is idempotent: a signal handled while a reconnect is scheduled
\* or in progress schedules none and leaves the attempt counter alone, a
\* signal handled otherwise below the ceiling schedules one at the backoff
\* delay whichever kind it is, and a reconnect is scheduled only when no
\* other is scheduled or in progress, so that there is at most one.
C25_DisconnectIsIdempotent ==
    /\ [][(Signalled /\ Pending) =>
              UNCHANGED <<reconnectAttempts, reconnectTimer, connectPc,
                          reconnecting>>]_vars
    /\ [][(Signalled /\ ~Pending
                     /\ reconnectAttempts < maxReconnectAttempts) =>
              (Schedules /\ reconnecting'
                 /\ reconnectTimer' = ReconnectDelay(reconnectAttempts))]_vars
    /\ [][Schedules =>
              /\ reconnectTimer = NoTimer
              /\ connectPc = "reconnect" => ReconnectFails
              /\ connectPc' = "idle"]_vars
    /\ [](Pending => reconnecting)
    /\ [](~(reconnectTimer # NoTimer /\ connectPc = "reconnect"))

\* a signal was ignored while the first reconnect of a lost session is
\* scheduled: the counter has counted one reconnect
C25_Witness ==
    /\ wire.ignored
    /\ reconnectTimer = baseReconnectDelay
    /\ reconnectAttempts = 1
    /\ sessions[stream] = "ended"

\* C29: SubscriptionSet after a reconnect is SubscriptionSet as it was
\* before the disconnect: neither the handling of an error or end signal,
\* nor a failed reconnect, nor the reconnect that succeeds, with its
\* resubscription, loses, adds or changes an entry, however many reconnects
\* there are; only a call of subscribeToProgram changes the set.
C29_ReconnectKeepsSubscriptions ==
    /\ [][(ReconnectSucceeds \/ ReconnectFails \/ Signalled) =>
              subscriptions' = subscriptions]_vars
    /\ [][subscriptions' # subscriptions =>
              \E programId \in Programs : SubscribesTo(programId)]_vars

\* the second reconnect has succeeded and both programs are subscribed
C29_Witness ==
    /\ stream = 3
    /\ sessions[3] = "open"
    /\ ~reconnecting
    /\ subscriptions = [programId \in Programs |-> subscriptionKey(programId)]

(***************************************************************************)
(* Graceful shutdown (index.ts, shutdown).                                 *)
(***************************************************************************)
\* C26: shutdown stops the keepalive timer and the flush timer, then awaits
\* the final flush, then closes the session, then exits: while the drain is
\* awaited both timers are stopped and the session is still held, and when
\* the process has exited both timers are stopped, no flush is in flight
\* and the session is closed.
C26_ShutdownOrder ==
    /\ shutdownPc = "draining" =>
          (~pingInterval /\ ~processInterval /\ stream # NoStream)
    /\ shutdownPc = "exited" =>
          (~pingInterval /\ ~processInterval /\ stream = NoStream
             /\ flushPc = "idle")

(***************************************************************************)
(* The reentrancy flag of processBuffer.                                   *)
(***************************************************************************)
\* a step in which processBuffer passes its guard and takes its snapshot
FlushStarts ==
    /\ flushPc' = "lookup"
    /\ flushVars' # flushVars
    /\ ~(flushPc = "lookup" /\ todo' \subseteq todo /\ todo' # todo)

\* C27: at most one flush is in progress: a flush starts only while none is
\* in flight, the flag isProcessing is set exactly while one is, and a
\* forced flush asked for while one is in flight returns at once: it starts
\* none, reads and writes no row and leaves the flush in flight as it is.
C27_OneFlushAtATime ==
    /\ [](isProcessing <=> flushPc # "idle")
    /\ [][FlushStarts => (flushPc = "idle" /\ ~isProcessing)]_vars
    /\ [][(shutdownPc = "running" /\ shutdownPc' # "running" /\ isProcessing)
             => UNCHANGED <<flushVars, isProcessing, store, buffer>>]_vars

\* shutdown's forced flush came while a flush was waiting for its insert:
\* that flush is as it was, and an update buffered after its snapshot is
\* in no snapshot
C27_Witness ==
    /\ shutdownPc = "exited"
    /\ isProcessing
    /\ flushPc = "insert"
    /\ \E pk \in DOMAIN buffer : pk \notin DOMAIN updates

\* C28: a Store failure during a flush does not pass the flush boundary
\* and releases the reentrancy flag: the step in which a flush fails leaves
\* the process running, the flush timer set and the buffer as it was, after
\* any flush, failed or not, isProcessing is false, and whenever no flush
\* is in flight the timer's next tick starts one if the buffer is not
\* empty.
C28_FailedFlushReleasesFlag ==
    /\ [][FlushFails =>
              /\ flushPc' = "idle"
              /\ ~isProcessing'
              /\ buffer' = buffer
              /\ shutdownPc' = shutdownPc
              /\ processInterval' = processInterval]_vars
    /\ [][FlushSucceeds => ~isProcessing']_vars
    /\ []((flushPc = "idle" /\ processInterval /\ buffer # EmptyMap) =>
             ENABLED TimerFlush)

\* after a flush failed the timer's next tick has started another one,
\* with the same buffer
C28_Witness ==
    /\ failures > 0
    /\ retry = "pending"
    /\ isProcessing
    /\ flushPc = "lookup"
    /\ updates = buffer

(***************************************************************************)
(* addUpdate while a flush is suspended in a Store call.                   *)
(***************************************************************************)
\* a step in which addUpdate(update) is called
Adds(update) ==
    /\ stats'.updatesReceived = stats.updatesReceived + 1
    /\ update.pubkey \in DOMAIN arrived'
    /\ arrived'[update.pubkey].last = update

\* the buffer as the updates delivered before the snapshot made it
SnapshotOf(delivered) ==
    [pk \in DOMAIN delivered |-> Buffered(delivered[pk].last)]

\* C34: addUpdate can be called while a flush is in flight and does not
\* wait for the Store: its step leaves the Store, the flush's locals and
\* the reentrancy flag as they are and changes the buffer entry of its own
\* pubkey only; and the rows a flush inserts are those of the buffer as it
\* was when the flush took its snapshot, whatever was added since.
C34_AddUpdateDuringFlush ==
    /\ [](flushPc # "idle" /\ stats.updatesReceived < MaxUpdates
            => ENABLED Deliver)
    /\ [][\A update \in AccountUpdates(stats.updatesReceived + 1) :
            Adds(update) =>
               /\ store' = store
               /\ flushVars' = flushVars
               /\ isProcessing' = isProcessing
               /\ DOMAIN buffer' = DOMAIN buffer \cup {update.pubkey}
               /\ buffer'[update.pubkey] = Buffered(update)
               /\ \A k \in DOMAIN buffer \ {update.pubkey} :
                     buffer'[k] = buffer[k]]_vars
    /\ [][FlushSucceeds =>
            Unstamped(Inserted)
               = ExpectedRows(SnapshotOf(snapArrived), store)]_vars

\* a flush is about to insert the row of a pubkey whose buffer entry was
\* replaced after the flush took its snapshot
C34_Witness ==
    /\ flushPc = "insert"
    /\ \E pk \in DOMAIN updates :
          /\ buffer[pk] # updates[pk]
          /\ buffer[pk].dataHash # updates[pk].dataHash
          /\ \E r \in states : r.pubkey = pk /\ r.data_hash = updates[pk].dataHash

\* the rows this worker has inserted: the table began with the create rows
\* of the indexer, and a flush inserts none
InsertedSoFar == {r \in store : r.change_type # "create"}

\* C35: whenever no flush is in flight, changesDetected is the number of
\* rows this process has inserted: a flush that failed and its retry have
\* not counted a change twice.
C35_ChangesDetectedCountsInserted ==
    flushPc = "idle" => stats.changesDetected = Cardinality(InsertedSoFar)

(***************************************************************************)
(* The cleanup job (cleanup.ts): cleanupProgram and pruneAccountChanges.   *)
(***************************************************************************)
\* .order("pubkey"): the order of the pubkey column
PubkeyOrder == <<"P1", "P2", "P3">>

Repeat(x, n) == [i \in 1..n |-> x]

RECURSIVE Concat(_)
Concat(seqs) == IF seqs = << >> THEN << >> ELSE Head(seqs) \o Concat(Tail(seqs))

\* select("pubkey").eq("program_id", programId).order("pubkey"): one entry
\* for every row of the program
PubkeyColumn(st, programId) ==
    Concat([i \in 1..Len(PubkeyOrder) |->
              Repeat(PubkeyOrder[i],
                     Cardinality(RowsOf(st, programId, PubkeyOrder[i])))])

\* .range(from, to): the entries at the zero-based positions from..to
Range(column, from, to) ==
    IF from >= Len(column) THEN << >>
    ELSE SubSeq(column, from + 1, Min(to + 1, Len(column)))

\* [...new Set(pubkeys.map(r => r.pubkey))]
Unique(page) ==
    SelectSeq(PubkeyOrder, LAMBDA pk : \E i \in 1..Len(page) : page[i] = pk)

\* select("created_at") ... order("created_at", descending).limit(limit):
\* the created_at of the newest rows of the record
KeepStates(st, programId, pubkey, limit) ==
    LET T == {r.created_at : r \in RowsOf(st, programId, pubkey)}
    IN  {t \in T : Cardinality({u \in T : u > t}) < limit}

\* a variant that takes the newest of the timestamps read
CutoffOf_Newest(keepStates) ==
    CHOOSE t \in keepStates : \A u \in keepStates : u <= t

\* keepStates[keepStates.length - 1].created_at: the oldest one read
CutoffOf(keepStates) ==
    CHOOSE t \in keepStates : \A u \in keepStates : t <= u

\* a variant that deletes the oldest row of the record, whatever the cutoff
DeleteOlderThan_Oldest(st, programId, pubkey, cutoff) ==
    st \ {r \in RowsOf(st, programId, pubkey) :
             \A q \in RowsOf(st, programId, pubkey) :
                r.created_at <= q.created_at}

\* a variant that deletes the row at the cutoff too
DeleteOlderThan_Lte(st, programId, pubkey, cutoff) ==
    st \ {r \in RowsOf(st, programId, pubkey) : r.created_at <= cutoff}

\* delete() ... .lt("created_at", cutoffTimestamp)
DeleteOlderThan(st, programId, pubkey, cutoff) ==
    st \ {r \in RowsOf(st, programId, pubkey) : r.created_at < cutoff}

\* a variant that asks for the same page again: line 115 is left out
AfterPrune_SamePage(j, deleted) ==
    LET counted == [j EXCEPT
                      !.totalDeleted = @ + deleted,
                      !.totalAccounts = IF deleted > 0 THEN @ + 1 ELSE @,
                      !.cutoff = 0,
                      !.seen = {},
                      !.pruned = @ \cup {Head(j.batch)},
                      !.batch = Tail(@)]
    IN  IF counted.batch # << >>
        THEN [counted EXCEPT !.pc = "select"]
        ELSE [counted EXCEPT
                !.pc = IF j.pageLen >= BATCH_SIZE THEN "list" ELSE "done"]

\* pruneAccountChanges has returned `deleted`: cleanupProgram, lines 107-115
AfterPrune(j, deleted) ==
    LET counted == [j EXCEPT
                      !.totalDeleted = @ + deleted,
                      !.totalAccounts = IF deleted > 0 THEN @ + 1 ELSE @,
                      !.cutoff = 0,
                      !.seen = {},
                      !.pruned = @ \cup {Head(j.batch)},
                      !.batch = Tail(@)]
    IN  IF counted.batch # << >>
        THEN [counted EXCEPT !.pc = "select"]
        ELSE [counted EXCEPT
                !.pc = IF j.pageLen >= BATCH_SIZE THEN "list" ELSE "done",
                !.offset = @ + BATCH_SIZE]

workerVars == <<procVars, flushVars, shutdownPc, grpcVars, feedVars, histVars,
                consecutiveFailed>>

\* main() calls cleanupProgram(programId): it sends the first page query
cleanupProgram(programId) ==
    /\ job.pc = "idle"
    /\ job' = [IdleJob EXCEPT !.pc = "list", !.programId = programId]
    /\ UNCHANGED <<workerVars, store, maxChanges, b58, wire>>

\* the page query answers, lines 83-104
ListPage ==
    /\ job.pc = "list"
    /\ LET page == Range(PubkeyColumn(store, job.programId), job.offset,
                         job.offset + BATCH_SIZE - 1)
       IN  job' = IF Len(page) = 0
                  THEN [job EXCEPT !.pc = "done"]
                  ELSE [job EXCEPT !.pc = "select", !.pageLen = Len(page),
                                   !.batch = Unique(page)]
    /\ UNCHANGED <<workerVars, store, maxChanges, b58, wire>>

\* pruneAccountChanges: the query of the newest timestamps answers,
\* lines 136-155
PruneSelect ==
    /\ job.pc = "select"
    /\ LET pubkey == Head(job.batch)
           keepStates == KeepStates(store, job.programId, pubkey, maxChanges)
       IN  job' = IF Cardinality(keepStates) < maxChanges
                  THEN AfterPrune(job, 0)
                  ELSE [job EXCEPT
                          !.pc = "delete",
                          !.cutoff = CutoffOf(keepStates),
                          !.seen = RowsOf(store, job.programId, pubkey)]
    /\ UNCHANGED <<workerVars, store, maxChanges, b58, wire>>

\* pruneAccountChanges: the delete answers with its count, lines 158-176
PruneDelete ==
    /\ job.pc = "delete"
    /\ store' = DeleteOlderThan(store, job.programId, Head(job.batch),
                                job.cutoff)
    /\ job' = [AfterPrune(job, Cardinality(store \ store')) EXCEPT
                  !.raced = @ \/ ~(RowsOf(store, job.programId, Head(job.batch))
                                       \subseteq job.seen)]
    /\ UNCHANGED <<workerVars, maxChanges, b58, wire>>

\* a variant in which the error leaves pruneAccountChanges and the loop
AfterError_Throws(j) ==
    [j EXCEPT !.pc = "failed", !.failed = @ \cup {Head(j.batch)}]

\* pruneAccountChanges has logged a Store error and returned 0: lines
\* 144-147 and 165-168, then cleanupProgram, lines 107-115
AfterError(j) ==
    [AfterPrune(j, 0) EXCEPT !.pruned = j.pruned,
                             !.failed = @ \cup {Head(j.batch)}]

\* pruneAccountChanges: the query of the newest timestamps answers with an
\* error, lines 144-147
PruneSelectFails ==
    /\ job.pc = "select"
    /\ failures < MaxFailures
    /\ failures' = failures + 1
    /\ job' = AfterError(job)
    /\ UNCHANGED <<procVars, flushVars, shutdownPc, grpcVars, feedVars,
                   arrived, snapArrived, retry, drainPending, scenario,
                   consecutiveFailed, store, maxChanges, b58, wire>>

\* pruneAccountChanges: the delete answers with an error and has deleted
\* nothing, lines 165-168
PruneDeleteFails ==
    /\ job.pc = "delete"
    /\ failures < MaxFailures
    /\ failures' = failures + 1
    /\ job' = AfterError(job)
    /\ UNCHANGED <<procVars, flushVars, shutdownPc, grpcVars, feedVars,
                   arrived, snapArrived, retry, drainPending, scenario,
                   consecutiveFailed, store, maxChanges, b58, wire>>

\* the page query answers with an error: cleanupProgram throws it, line 91,
\* and the catch of main() ends the process with status 1, lines 63-66
ListPageFails ==
    /\ job.pc = "list"
    /\ failures < MaxFailures
    /\ failures' = failures + 1
    /\ job' = [job EXCEPT !.pc = "failed"]
    /\ UNCHANGED <<procVars, flushVars, shutdownPc, grpcVars, feedVars,
                   arrived, snapArrived, retry, drainPending, scenario,
                   consecutiveFailed, store, maxChanges, b58, wire>>

NextCleanup ==
    \/ \E programId \in Programs : cleanupProgram(programId)
    \/ ListPage
    \/ PruneSelect
    \/ PruneDelete

(***************************************************************************)
(* The table as the indexer and the worker have filled it, and the cleanup *)
(* job run on it while no worker is running.                               *)
(***************************************************************************)
\* the rows of one record created at the times T: the baseline first, then
\* updates whose content alternates, as consecutive rows never share a hash
HistoryRow(pk, T, t) ==
    LET rank == Cardinality({u \in T : u < t})
        update == [pubkey |-> pk, owner |-> OwnerOf(pk), lamports |-> 1,
                   slot |-> t,
                   data |-> IF rank % 2 = 1 THEN <<7>> ELSE BaselineData]
    IN  Stamp(IF rank = 0 THEN BaselineRow(OwnerOf(pk), pk, BaselineData)
              ELSE StateOf(Buffered(update)), t)

History(pk, T) == {HistoryRow(pk, T, t) : t \in T}

\* no worker process: a processor and a client as their constructors leave
\* them
NoWorker ==
    /\ buffer = EmptyMap
    /\ isProcessing = FALSE
    /\ processInterval = FALSE
    /\ stats = [updatesReceived |-> 0, changesDetected |-> 0,
                lastProcessedSlot |-> 0]
    /\ flushPc = "idle"
    /\ updates = EmptyMap
    /\ todo = {}
    /\ states = {}
    /\ shutdownPc = "running"
    /\ stream = NoStream
    /\ subscriptions = EmptyMap
    /\ reconnecting = FALSE
    /\ reconnectAttempts = 0
    /\ pingInterval = FALSE
    /\ reconnectTimer = NoTimer
    /\ connectPc = "idle"
    /\ sessions = [s \in Sessions |-> "unopened"]
    /\ feedFilters = [s \in Sessions |-> {}]
    /\ arrived = EmptyMap
    /\ snapArrived = EmptyMap
    /\ retry = "none"
    /\ drainPending = EmptyMap
    /\ failures = 0
    /\ scenario = << >>
    /\ consecutiveFailed = 0
    /\ wire = NoRequest

\* one record with any history, the retention as cleanup.ts defaults it
InitPrune ==
    /\ NoWorker
    /\ maxChanges = DefaultMaxChanges
    /\ job = IdleJob
    /\ b58 = NoKey
    /\ \E T \in SUBSET (1..MaxRows) : store = History("P1", T)

SpecPrune == InitPrune /\ [][NextCleanup]_vars

\* the rows of the record pruneAccountChanges is working on
PrunedRows(st) == RowsOf(st, job.programId, Head(job.batch))

\* C15: pruning one record with retention K leaves a record with fewer
\* than K rows untouched, and of a record with n >= K rows it deletes, in
\* its one delete, exactly the n - K oldest rows and keeps the K newest.
C15_PruneKeepsNewestK ==
    [][/\ job.pc = "select" =>
             IF Cardinality(PrunedRows(store)) < maxChanges
             THEN store' = store /\ job'.pc # "delete"
             ELSE store' = store /\ job'.pc = "delete"
       /\ job.pc = "delete" =>
             LET rows == PrunedRows(store)
                 kept == RowsOf(store', job.programId, Head(job.batch))
                 gone == store \ store'
             IN  /\ gone \subseteq rows
                 /\ kept = rows \ gone
                 /\ Cardinality(kept) = maxChanges
                 /\ Cardinality(gone) = Cardinality(rows) - maxChanges
                 /\ \A g \in gone, k \in kept : g.created_at < k.created_at
                 /\ job'.totalDeleted = job.totalDeleted + Cardinality(gone)
      ]_vars

\* the job has ended on a record of 15 rows, with retention 10: 5 rows were
\* deleted and the 10 newest are left
C15_Witness ==
    /\ job.pc = "done"
    /\ maxChanges = 10
    /\ job.totalDeleted = 5
    /\ store = History("P1", 1..15) \ History("P1", 1..5)
    /\ store # {}

\* pruneAccountChanges is at work on a record it has pruned before in this
\* run, on an earlier page that held rows of the record
PrunesAgain ==
    /\ job.pc \in {"select", "delete"}
    /\ Head(job.batch) \in job.pruned

\* C39: pruneAccountChanges applied to a record a second time, with no
\* insert in between, deletes no row: neither its read nor its delete
\* changes the table, and the count of deleted rows stays as it was.
C39_PruneIsIdempotent ==
    [][PrunesAgain =>
         /\ store' = store
         /\ job'.totalDeleted = job.totalDeleted
         /\ job'.totalAccounts = job.totalAccounts]_vars

\* the record of 14 rows was pruned to its 10 newest on the first page, and
\* pruned again, its delete included, on the pages after it
C39_Witness ==
    /\ job.pc = "done"
    /\ maxChanges = 10
    /\ job.offset > 2 * BATCH_SIZE
    /\ job.pruned = {"P1"}
    /\ job.totalDeleted = 4
    /\ Cardinality(store) = 10

(***************************************************************************)
(* The cleanup job on a table of several records.                          *)
(***************************************************************************)
\* every record with a history of its own length, any retention
InitCleanup ==
    /\ NoWorker
    /\ maxChanges \in 1..MaxRetention
    /\ job = IdleJob
    /\ b58 = NoKey
    /\ \E n \in [Pubkeys -> 0..MaxHistory] :
          store = UNION {History(pk, 1..n[pk]) : pk \in Pubkeys}

SpecCleanup == InitCleanup /\ [][NextCleanup]_vars

\* C16: when cleanupProgram has completed for a program, no record of that
\* program is left with more rows than the retention.
C16_EveryRecordPruned ==
    job.pc = "done" =>
       \A pk \in Pubkeys :
          Cardinality(RowsOf(store, job.programId, pk)) <= maxChanges

(***************************************************************************)
(* The cleanup job with a Store that fails some of its calls.              *)
(***************************************************************************)
NextFaulty ==
    \/ NextCleanup
    \/ PruneSelectFails
    \/ PruneDeleteFails
    \/ ListPageFails

SpecFaulty == InitCleanup /\ [][NextFaulty]_vars

\* a step in which the read or the delete of the record in hand fails
RecordFails == job.pc \in {"select", "delete"} /\ failures' = failures + 1

\* where cleanupProgram goes on when pruneAccountChanges has returned
NextRecord(j) ==
    IF Tail(j.batch) # << >> THEN [pc |-> "select", offset |-> j.offset]
    ELSE [pc |-> IF j.pageLen >= BATCH_SIZE THEN "list" ELSE "done",
          offset |-> j.offset + BATCH_SIZE]

\* C31: a Store read or delete failure for one record does not abort the
\* prune run: the table and the counts of deleted rows and pruned accounts
\* stay as they were, and the run goes on with the next record of the batch
\* or, after the last one, with the next page; every record of a batch is
\* taken in its turn, and a record whose prune returns without error is
\* left with at most K rows, after a failure as before it.
C31_RecordFailureDoesNotAbort ==
    /\ [][RecordFails =>
            /\ store' = store
            /\ job'.totalDeleted = job.totalDeleted
            /\ job'.totalAccounts = job.totalAccounts
            /\ job'.batch = Tail(job.batch)
            /\ job'.pc = NextRecord(job).pc
            /\ job'.offset = NextRecord(job).offset]_vars
    /\ [][(job.pc \in {"select", "delete"} /\ job' # job
              /\ job'.pc # "delete") =>
            /\ Head(job.batch) \in job'.pruned \cup job'.failed
            /\ job'.batch = Tail(job.batch)
            /\ job'.pc = NextRecord(job).pc]_vars
    /\ [](\A pk \in job.pruned :
            Cardinality(RowsOf(store, job.programId, pk)) <= maxChanges)

\* the run has ended: the prune of P1 failed and left it with more rows
\* than the retention, and P2, the next record of the batch, was pruned
C31_Witness ==
    /\ job.pc = "done"
    /\ failures = 1
    /\ job.failed = {"P1"}
    /\ "P2" \in job.pruned
    /\ job.totalDeleted > 0
    /\ Cardinality(RowsOf(store, job.programId, "P1")) > maxChanges

\* the same job with a Store that answers every call, with a result or
\* with an error
SpecAnswered == SpecFaulty /\ WF_vars(NextFaulty)

\* the page the query of the next iteration gets
NextPage ==
    Range(PubkeyColumn(store, job.programId), job.offset,
          job.offset + BATCH_SIZE - 1)

\* a step that ends an iteration of the while loop
EndsIteration ==
    /\ job.pc \in {"select", "delete"}
    /\ job'.pc \in {"list", "done"}

\* C40: cleanupProgram terminates: once called it comes to its end, or to
\* the error of a page query; every iteration that prunes a page adds the
\* batch size to the offset and nothing else changes it; and the loop ends
\* at the first page that is empty or shorter than the batch size and at no
\* other, also when rows were deleted between the pages.
C40_CleanupTerminates ==
    /\ (job.pc # "idle") ~> (job.pc \in {"done", "failed"})
    /\ [][job.pc # "idle" =>
            /\ job'.offset \in {job.offset, job.offset + BATCH_SIZE}
            /\ job'.offset # job.offset <=> EndsIteration]_vars
    /\ [][(job.pc = "list" /\ job'.pc # job.pc /\ job'.pc # "failed") =>
            IF Len(NextPage) = 0 THEN job'.pc = "done"
            ELSE job'.pc = "select" /\ job'.pageLen = Len(NextPage)]_vars
    /\ [][EndsIteration =>
            (job'.pc = "done" <=> job.pageLen < BATCH_SIZE)]_vars

\* the run has ended at its second page, which was shorter than the batch
\* size, after rows of the first page were deleted
C40_Witness ==
    /\ job.pc = "done"
    /\ job.offset = 2 * BATCH_SIZE
    /\ job.pageLen \in 1..(BATCH_SIZE - 1)
    /\ job.totalDeleted >= 2
    /\ failures = 0

(***************************************************************************)
(* The cleanup job run while the worker is flushing.                       *)
(***************************************************************************)
\* the worker runs, the table holds one record with its history
InitRace ==
    /\ RunningWorker
    /\ maxChanges \in 1..MaxRetention
    /\ job = IdleJob
    /\ b58 = NoKey
    /\ \E n \in 1..MaxHistory : store = History("P1", 1..n)

\* the feed delivers an update of a record the table holds
DeliverSeeded ==
    /\ stats.updatesReceived < MaxUpdates
    /\ \E update \in AccountUpdates(stats.updatesReceived + 1) :
          /\ RowsOf(store, update.owner, update.pubkey) # {}
          /\ addUpdate(update)
    /\ UNCHANGED <<scenario, jobVars, wire>>

NextRace ==
    \/ NextCleanup
    \/ DeliverSeeded
    \/ TimerFlush
    \/ \E programId \in Programs : LookupOk(programId)
    \/ InsertOk

SpecRace == InitRace /\ [][NextRace]_vars

\* C17: with flushes running beside it, the delete of a prune removes only
\* rows older than the cutoff it read, none of them inserted after the
\* cutoff was read and none among the K newest rows of the record, and it
\* leaves the record, which had at least K rows, with at least K rows; a
\* row a flush inserts meanwhile is newer than the cutoff.
C17_PruneDoesNotRaceWithFlush ==
    [][job.pc = "delete" =>
         /\ \A r \in store' \ store : r.created_at > job.cutoff
         /\ job' # job =>
              LET rows == PrunedRows(store)
                  gone == store \ store'
              IN  /\ Cardinality(job.seen) >= maxChanges
                  /\ \A g \in gone :
                       /\ g.created_at < job.cutoff
                       /\ g \in job.seen
                       /\ Cardinality({r \in rows :
                                         r.created_at > g.created_at})
                             >= maxChanges
                  /\ Cardinality(rows \ gone) >= maxChanges]_vars

\* a prune has deleted rows of a record to which a flush had added a row
\* after the cutoff was read
C17_Witness ==
    /\ job.raced
    /\ job.totalDeleted > 0

\* C18: in every state of the table, after seeds, flushes and prune runs,
\* every record that was seeded, which is every record that has rows, has
\* exactly one row with change_type create.
C18_OneCreateRowPerRecord ==
    \A programId \in Programs, pk \in Pubkeys :
       RowsOf(store, programId, pk) # {} =>
          Cardinality({r \in RowsOf(store, programId, pk) :
                         r.change_type = "create"}) = 1

\* C19: every row a flush inserts has change_type update or delete, never
\* create, whatever was delivered.
C19_FlushNeverCreates ==
    [][\A r \in Inserted : r.change_type \in {"update", "delete"}]_vars

\* a flush has inserted the row of an account that is not deleted, whose
\* record now holds the baseline and that row
C19_Witness ==
    /\ flushPc = "idle"
    /\ \E r \in store :
          /\ r.slot > 0
          /\ r.data # Base64(<< >>)
          /\ r.change_type = "update"
          /\ \E b \in RowsOf(store, r.program_id, r.pubkey) :
                b.change_type = "create"

(***************************************************************************)
(* The worker with a Store that fails some of its calls, and the cleanup   *)
(* job beside it.                                                          *)
(***************************************************************************)
NextChurn ==
    \/ NextRace
    \/ StoreFails

SpecChurn == InitRace /\ [][NextChurn]_vars

\* two rows of one record with no row of the record between them in the
\* order of created_at
Adjacent(st, r, q) ==
    /\ r.program_id = q.program_id
    /\ r.pubkey = q.pubkey
    /\ r # q
    /\ r.created_at <= q.created_at
    /\ ~ \E m \in RowsOf(st, r.program_id, r.pubkey) :
            r.created_at < m.created_at /\ m.created_at < q.created_at

\* C33: after any sequence of flushes, failed ones and their retries
\* included, and of prune runs, no two rows of a record that are adjacent in
\* the order of created_at have the same data_hash; and every row a flush
\* inserts differs in hash from the newest row its record has at the insert.
C33_NoAdjacentEqualHashes ==
    /\ [](\A r, q \in store :
            Adjacent(store, r, q) => r.data_hash # q.data_hash)
    /\ [][\A r \in Inserted :
            /\ HasBaseline(store, r.program_id, r.pubkey)
            /\ r.data_hash # LatestHash(store, r.program_id, r.pubkey)]_vars

\* a flush failed, its retry inserted a row, and a prune has deleted rows
\* of the record: the rows left include the one the retry inserted
C33_Witness ==
    /\ retry = "done"
    /\ failures > 0
    /\ job.totalDeleted > 0
    /\ flushPc = "idle"
    /\ \E r \in store : r.created_at > MaxHistory
    /\ Cardinality(store) >= 2

(***************************************************************************)
(* toBase58 (grpc.ts): the encoding of the 32-byte keys of an update.      *)
(***************************************************************************)
ALPHABET ==
    <<"1", "2", "3", "4", "5", "6", "7", "8", "9", "A", "B", "C",
      "D", "E", "F", "G", "H", "J", "K", "L", "M", "N", "P", "Q",
      "R", "S", "T", "U", "V", "W", "X", "Y", "Z", "a", "b", "c",
      "d", "e", "f", "g", "h", "i", "j", "k", "m", "n", "o", "p",
      "q", "r", "s", "t", "u", "v", "w", "x", "y", "z">>

\* the while loop of lines 39-42: the carry left over is pushed, digit by
\* digit
RECURSIVE PushCarry(_)
PushCarry(carry) ==
    IF carry = 0 THEN << >>
    ELSE <<carry % 58>> \o PushCarry(carry \div 58)

\* the loops of lines 33-42 for one byte: digits, least significant first
RECURSIVE AddByte(_, _)
AddByte(digits, carry) ==
    IF digits = << >> THEN PushCarry(carry)
    ELSE LET sum == carry + Head(digits) * 256
         IN  <<sum % 58>> \o AddByte(Tail(digits), sum \div 58)

\* lines 30-43: const digits = [0], then every byte in turn
RECURSIVE DigitsOf(_, _)
DigitsOf(digits, bytes) ==
    IF bytes = << >> THEN digits
    ELSE DigitsOf(AddByte(digits, Head(bytes)), Tail(bytes))

\* lines 46-49: one ALPHABET[0] for every leading zero byte
RECURSIVE LeadingZeros(_)
LeadingZeros(bytes) ==
    IF bytes = << >> \/ Head(bytes) # 0 THEN 0
    ELSE 1 + LeadingZeros(Tail(bytes))

Reverse(seq) == [i \in 1..Len(seq) |-> seq[Len(seq) + 1 - i]]

toBase58(bytes) ==
    LET digits == DigitsOf(<<0>>, bytes)
    IN  Repeat(ALPHABET[1], LeadingZeros(bytes))
        \o [i \in 1..Len(digits) |-> ALPHABET[Reverse(digits)[i] + 1]]

\* the standard inverse: a zero byte for every leading "1", then the value
\* of the remaining characters in base 256, most significant byte first
IndexOf(char) == (CHOOSE i \in 1..Len(ALPHABET) : ALPHABET[i] = char) - 1

RECURSIVE PushCarry256(_)
PushCarry256(carry) ==
    IF carry = 0 THEN << >>
    ELSE <<carry % 256>> \o PushCarry256(carry \div 256)

RECURSIVE AddDigit(_, _)
AddDigit(bytes, carry) ==
    IF bytes = << >> THEN PushCarry256(carry)
    ELSE LET sum == carry + Head(bytes) * 58
         IN  <<sum % 256>> \o AddDigit(Tail(bytes), sum \div 256)

RECURSIVE BytesOf(_, _)
BytesOf(bytes, chars) ==
    IF chars = << >> THEN bytes
    ELSE BytesOf(AddDigit(bytes, IndexOf(Head(chars))), Tail(chars))

RECURSIVE LeadingOnes(_)
LeadingOnes(chars) ==
    IF chars = << >> \/ Head(chars) # ALPHABET[1] THEN 0
    ELSE 1 + LeadingOnes(Tail(chars))

fromBase58(chars) ==
    Repeat(0, LeadingOnes(chars)) \o Reverse(BytesOf(<< >>, chars))

\* length of a pubkey and of an owner
KeyLen == 32

\* byte values the keys are built from
ByteSamples == {0, 1, 57, 58, 255}

\* keys with any number of leading zero bytes, among them the all-zero and
\* the all-0xFF key
Keys ==
    {[i \in 1..KeyLen |-> IF i <= z THEN 0 ELSE IF i % 2 = 0 THEN a ELSE b] :
        z \in 0..KeyLen, a \in ByteSamples, b \in ByteSamples}

InitBase58 ==
    /\ NoWorker
    /\ store = {}
    /\ maxChanges = DefaultMaxChanges
    /\ job = IdleJob
    /\ \E x \in Keys :
          b58 = [pc |-> "input", input |-> x, encoded |-> << >>,
                 decoded |-> << >>]

\* handleAccountUpdate encodes the key
Encode ==
    /\ b58.pc = "input"
    /\ b58' = [b58 EXCEPT !.pc = "encoded", !.encoded = toBase58(b58.input)]
    /\ UNCHANGED <<workerVars, store, maxChanges, job, wire>>

\* a reader of the key decodes it
Decode ==
    /\ b58.pc = "encoded"
    /\ b58' = [b58 EXCEPT !.pc = "decoded",
                          !.decoded = fromBase58(b58.encoded)]
    /\ UNCHANGED <<workerVars, store, maxChanges, job, wire>>

NextBase58 ==
    \/ Encode
    \/ Decode

SpecBase58 == InitBase58 /\ [][NextBase58]_vars

\* C20: decoding the encoding of a 32-byte key gives the key back, the
\* all-zero and the all-0xFF key included.
C20_Base58RoundTrip ==
    b58.pc = "decoded" => b58.decoded = b58.input

\* C32: the encoding of a key is one "1" for every leading zero byte of
\* the key, followed by the base-58 digits of the value of the bytes after
\* them, the first of which is not the zero digit "1"; the key of n zero
\* bytes is encoded as exactly n characters "1".
C32_OneCharPerLeadingZero ==
    b58.pc \in {"encoded", "decoded"} =>
       LET z == LeadingZeros(b58.input)
           e == b58.encoded
           rest == SubSeq(e, z + 1, Len(e))
       IN  /\ Len(e) >= z
           /\ \A i \in 1..z : e[i] = ALPHABET[1]
           /\ rest # << >> => Head(rest) # ALPHABET[1]
           /\ Reverse(BytesOf(<< >>, rest))
                 = SubSeq(b58.input, z + 1, Len(b58.input))
           /\ z = Len(b58.input) => Len(e) = z

(***************************************************************************)
(* Inbound messages (grpc.ts, the 'data' listener of connect, handleUpdate *)
(* and handleAccountUpdate). A field of a message is the set of its value, *)
(* empty when the message lacks it.                                        *)
(***************************************************************************)
\* the keys and the owner of the accounts in the messages
RawKeys == {<<1>>, <<0, 57>>}
RawOwner == <<2>>

\* SubscribeUpdateAccount messages: the well-formed ones, one without
\* account info, and ones that lack the key or the lamports
RawUpdates(slot) ==
    {[account |-> {[pubkey |-> k, owner |-> {RawOwner}, lamports |-> l,
                    data |-> {d}]},
      slot |-> {slot}] :
        k \in {{}} \cup {{key} : key \in RawKeys},
        l \in {{}} \cup {{lamports} : lamports \in Lamports},
        d \in Datas}
    \cup {[account |-> {}, slot |-> {slot}]}

The(field) == CHOOSE value \in field : TRUE

\* handleAccountUpdate, lines 283-291, throws: toBase58 iterates its
\* argument and BigInt converts its argument, and neither takes undefined
Throws(update) ==
    \E accountInfo \in update.account :
       \/ accountInfo.pubkey = {}
       \/ accountInfo.owner = {}
       \/ accountInfo.lamports = {}
       \/ update.slot = {}
       \/ accountInfo.data = {}

\* handleAccountUpdate, lines 283-291: the decoded AccountUpdate
Decoded(update) ==
    LET accountInfo == The(update.account)
    IN  [pubkey |-> toBase58(The(accountInfo.pubkey)),
         owner |-> toBase58(The(accountInfo.owner)),
         lamports |-> The(accountInfo.lamports),
         slot |-> The(update.slot),
         data |-> The(accountInfo.data)]

\* the 'data' listener with an account message: handleUpdate calls
\* handleAccountUpdate, which returns without account info and else decodes
\* the message and calls the callback, processor.addUpdate. No caller
\* catches what the decoding throws: the exception leaves the listener, and
\* the emitter's caller either lets it reach the event loop, which ends the
\* process with status 1, or contains it.
handleAccountUpdate(update) ==
    /\ shutdownPc = "running"
    /\ scenario' = Append(scenario, update)
    /\ IF update.account # {} /\ ~Throws(update)
       THEN addUpdate(Decoded(update))
       ELSE /\ \/ update.account # {} /\ shutdownPc' = "failed"
               \/ UNCHANGED shutdownPc
            /\ UNCHANGED <<procVars, flushVars, store, grpcVars, feedVars,
                           arrived, snapArrived, retry, drainPending,
                           failures, consecutiveFailed>>
    /\ UNCHANGED <<jobVars, wire>>

\* the worker as main() has started it, with nothing stored
InitInbound ==
    /\ InitWorker
    /\ store = {}

\* the feed delivers a message; every message carries the next slot
NextInbound ==
    /\ Len(scenario) <= MaxUpdates
    /\ \E update \in RawUpdates(Len(scenario) + 1) : handleAccountUpdate(update)

SpecInbound == InitInbound /\ [][NextInbound]_vars

\* a step that delivers the message
Delivers(update) == scenario' = Append(scenario, update)

\* C30: a malformed or undecodable inbound update (without account info,
\* or whose key or numeric fields fail to decode) is dropped: the step that
\* delivers it leaves the worker running and the buffer as it was; and a
\* well-formed update delivered after it is buffered.
C30_MalformedUpdateIsDropped ==
    [][\A update \in RawUpdates(Len(scenario) + 1) : Delivers(update) =>
          IF update.account = {} \/ Throws(update)
          THEN buffer' = buffer /\ shutdownPc' = shutdownPc
          ELSE /\ Decoded(update).pubkey \in DOMAIN buffer'
               /\ buffer'[Decoded(update).pubkey].slot = Len(scenario) + 1]_vars

====
